---- MODULE Spec2Model ----
(***************************************************************************)
(* Model of the Task_EZ contact-form feature.                              *)
(*                                                                         *)
(*   - backend/routes/contact.js : the six REST handlers over the Contact  *)
(*     collection (POST /contact-us, GET /contacts, GET /contacts/:id,     *)
(*     PATCH /contacts/:id/status, DELETE /contacts/:id, GET stats).       *)
(*   - frontend/src/components/ContactForm.js : the React form component   *)
(*     (handleChange, handleSubmit) and, in the same file, the mongoose    *)
(*     Contact schema.                                                     *)
(*                                                                         *)
(* Strings are sequences of one-character strings, so that trim(),         *)
(* toLowerCase() and the schema's regular expressions are computed rather  *)
(* than assumed.  Time is counted in whole days.                           *)
(***************************************************************************)
EXTENDS Integers, Sequences, FiniteSets, TLC

VARIABLES
    store,          \* the Contact collection: a set of documents
    nextId,         \* the next _id the database generates
    now,            \* Date.now(), in days
    res,            \* the last request handled by the server and its response
    formData,       \* ContactForm state: the four field values
    errors,         \* ContactForm state: field name -> inline error message
    isSubmitting,   \* ContactForm state
    submitStatus,   \* ContactForm state: the status message
    pc,             \* handleSubmit's position: "idle" or "awaiting" (at the await)
    sent,           \* the request body of the submission in flight
    reply,          \* HTTP status of the response on its way to the form (0: none)
    edited,         \* whether the user changed a field while the call was in flight
    posts,          \* POST /contact-us requests handled concurrently, each at its await
    stats           \* a GET stats request between its count queries

vars == <<store, nextId, now, res, formData, errors, isSubmitting, submitStatus,
          pc, sent, reply, edited, posts, stats>>

\* requests suspended at an await of their handler
concVars == <<posts, stats>>
serverVars == <<store, nextId, now, res, posts, stats>>
formVars == <<formData, errors, isSubmitting, submitStatus, pc, sent, reply, edited>>

---------------------------------------------------------------------------
(* Bounds of the model.                                                    *)

\* documents ever created (so also the largest _id and the largest store)
MaxRecords == 2
\* the clock stops after this many days
MaxTime == 2
\* POST /contact-us requests that are handled at the same time
MaxConcurrent == 2

---------------------------------------------------------------------------
(* Characters and strings.                                                 *)

Digits == {"0", "1", "2", "3", "4", "5", "6", "7", "8", "9"}
UpperCase == <<"A", "B", "C", "D", "E", "F", "G", "H", "I", "J", "K", "L", "M",
               "N", "O", "P", "Q", "R", "S", "T", "U", "V", "W", "X", "Y", "Z">>
LowerCase == <<"a", "b", "c", "d", "e", "f", "g", "h", "i", "j", "k", "l", "m",
               "n", "o", "p", "q", "r", "s", "t", "u", "v", "w", "x", "y", "z">>
Range(f) == {f[i] : i \in DOMAIN f}

\* the regular-expression class \w
WordChars == Digits \cup Range(UpperCase) \cup Range(LowerCase) \cup {"_"}

SetMin(S) == CHOOSE x \in S : \A y \in S : x <= y
SetMax(S) == CHOOSE x \in S : \A y \in S : x >= y

\* String.prototype.trim (the only white space of the model is " ")
trim(s) ==
    IF \A i \in 1..Len(s) : s[i] = " " THEN <<>>
    ELSE LET first == CHOOSE i \in 1..Len(s) :
                          s[i] # " " /\ \A j \in 1..(i - 1) : s[j] = " "
             last == CHOOSE i \in 1..Len(s) :
                         s[i] # " " /\ \A j \in (i + 1)..Len(s) : s[j] = " "
         IN  SubSeq(s, first, last)

toLowerChar(c) ==
    IF \E i \in 1..Len(UpperCase) : UpperCase[i] = c
    THEN LowerCase[CHOOSE i \in 1..Len(UpperCase) : UpperCase[i] = c]
    ELSE c

\* String.prototype.toLowerCase
toLowerCase(s) == [i \in 1..Len(s) |-> toLowerChar(s[i])]

\* a string of n copies of c
Repeat(c, n) == [i \in 1..n |-> c]

\* whether `part` occurs in s (a RegExp made of literal characters)
Contains(s, part) ==
    \E i \in 0..(Len(s) - Len(part)) : SubSeq(s, i + 1, i + Len(part)) = part

---------------------------------------------------------------------------
(* The Contact schema.                                                     *)

Fields == {"name", "email", "phone", "message"}
Statuses == {"new", "read", "replied", "archived"}

NameMinLength == 2
NameMaxLength == 100
MessageMinLength == 10
MessageMaxLength == 1000
PhoneMaxMoreDigits == 15
TldMinLength == 2
TldMaxLength == 3

\* \w+([.-]?\w+)* : runs of word characters joined by single "." or "-"
DottedWords(s) ==
    /\ Len(s) >= 1
    /\ s[1] \in WordChars
    /\ s[Len(s)] \in WordChars
    /\ \A i \in 1..Len(s) : s[i] \in WordChars \cup {".", "-"}
    /\ \A i \in 1..(Len(s) - 1) : s[i] \in WordChars \/ s[i + 1] \in WordChars

\* \w+([.-]?\w+)*(\.\w{2,3})+ : the text after the last "." is 2 or 3 word
\* characters, and what precedes that "." is DottedWords
DomainPart(s) ==
    LET dots == {i \in 1..Len(s) : s[i] = "."}
    IN  /\ dots # {}
        /\ LET d == SetMax(dots)
           IN  /\ Len(s) - d >= TldMinLength
               /\ Len(s) - d <= TldMaxLength
               /\ \A i \in (d + 1)..Len(s) : s[i] \in WordChars
               /\ DottedWords(SubSeq(s, 1, d - 1))

\* /^\w+([.-]?\w+)*@\w+([.-]?\w+)*(\.\w{2,3})+$/
EmailMatch(s) ==
    LET ats == {i \in 1..Len(s) : s[i] = "@"}
    IN  /\ Cardinality(ats) = 1
        /\ LET a == SetMin(ats)
           IN  /\ DottedWords(SubSeq(s, 1, a - 1))
               /\ DomainPart(SubSeq(s, a + 1, Len(s)))

\* /^[\+]?[1-9][\d]{0,15}$/
PhoneMatch(s) ==
    LET d == IF Len(s) >= 1 /\ s[1] = "+" THEN SubSeq(s, 2, Len(s)) ELSE s
    IN  /\ Len(d) >= 1
        /\ Len(d) <= 1 + PhoneMaxMoreDigits
        /\ d[1] \in Digits \ {"0"}
        /\ \A i \in 1..Len(d) : d[i] \in Digits

\* the schema's setters: trim on all four paths, lowercase on email.  Mongoose
\* runs them when a document is built and when a query filter is cast.
SetName(v) == trim(v)
SetEmailTrimOnly(v) == trim(v)
SetEmail(v) == toLowerCase(trim(v))
SetPhone(v) == trim(v)
SetMessage(v) == trim(v)

\* the validators of name without minlength and maxlength
NameErrorRequiredOnly(v) == IF v = <<>> THEN <<"Name is required">> ELSE <<>>

\* the validators of each path; the first one that fails gives the path's error
NameError(v) ==
    IF v = <<>> THEN <<"Name is required">>
    ELSE IF Len(v) < NameMinLength THEN <<"Name must be at least 2 characters long">>
    ELSE IF Len(v) > NameMaxLength THEN <<"Name cannot exceed 100 characters">>
    ELSE <<>>

EmailError(v) ==
    IF v = <<>> THEN <<"Email is required">>
    ELSE IF ~EmailMatch(v) THEN <<"Please enter a valid email address">>
    ELSE <<>>

PhoneError(v) ==
    IF v = <<>> THEN <<"Phone number is required">>
    ELSE IF ~PhoneMatch(v) THEN <<"Please enter a valid phone number">>
    ELSE <<>>

MessageError(v) ==
    IF v = <<>> THEN <<"Message is required">>
    ELSE IF Len(v) < MessageMinLength THEN <<"Message must be at least 10 characters long">>
    ELSE IF Len(v) > MessageMaxLength THEN <<"Message cannot exceed 1000 characters">>
    ELSE <<>>

\* error.errors of the ValidationError that save() raises for doc, as the
\* list of messages (empty: the document is valid)
ValidationErrors(doc) ==
    NameError(doc.name) \o EmailError(doc.email) \o PhoneError(doc.phone)
        \o MessageError(doc.message)

\* new Contact({...}) under a schema whose status defaults to a value outside
\* the enum
NewContactOtherDefault(name, email, phone, message, ip, ua) ==
    [name |-> SetName(name), email |-> SetEmail(email), phone |-> SetPhone(phone),
     message |-> SetMessage(message), status |-> "pending",
     ipAddress |-> ip, userAgent |-> ua]

\* new Contact({...}): the setters run on the given values, status defaults.
\* updatedAt (timestamps: true) is written by save and by findByIdAndUpdate and
\* is read by no handler; documents of the model do not carry it.
NewContact(name, email, phone, message, ip, ua) ==
    [name |-> SetName(name), email |-> SetEmail(email), phone |-> SetPhone(phone),
     message |-> SetMessage(message), status |-> "new",
     ipAddress |-> ip, userAgent |-> ua]

---------------------------------------------------------------------------
(* The server: routes/contact.js.                                          *)

\* 24 * 60 * 60 * 1000 ms, in days
Window == 1

\* one handled request and its response
Response(req, code, json, ops) == [req |-> req, code |-> code, json |-> json, ops |-> ops]

\* the field is absent from the body (an empty string passes)
BlankOnlyMissing(body, f) == f \notin DOMAIN body

\* !body.f : the field is absent from the body or is the empty string
Blank(body, f) == f \notin DOMAIN body \/ body[f] = <<>>

\* findOne comparing the request's text as received with the stored text
FindRecentRaw(email, message) ==
    {r \in store : r.email = email /\ r.message = message /\ r.createdAt >= now - Window}

\* Contact.findOne({email, message, createdAt: {$gte: now - 24h}}): the filter is
\* cast through the schema, so email and message pass their setters
FindRecent(email, message) ==
    LET e == SetEmail(email)
        m == SetMessage(message)
    IN  {r \in store : r.email = e /\ r.message = m /\ r.createdAt >= now - Window}

\* the body of res.status(201).json(...)
Created(doc) ==
    [success |-> TRUE,
     message |-> "Thank you for contacting us! We will get back to you soon.",
     data |-> [id |-> doc.id, name |-> doc.name, email |-> doc.email,
               submittedAt |-> doc.createdAt]]

Failure(message) == [success |-> FALSE, message |-> message]

\* router.post('/contact-us'): the response and the documents it saves.
\* fault names the store operation that throws ("none": the store works).
PostOutcome(body, ip, ua, fault) ==
    IF \E f \in Fields : Blank(body, f)
    THEN [code |-> 400, json |-> Failure("All fields are required"),
          saved |-> {}, ops |-> <<>>]
    ELSE IF fault = "findOne"
    THEN [code |-> 500, json |-> Failure("Internal server error. Please try again later."),
          saved |-> {}, ops |-> <<"findOne">>]
    ELSE IF FindRecent(body.email, body.message) # {}
    THEN [code |-> 429,
          json |-> Failure("Similar contact form submitted recently. Please wait 24 hours."),
          saved |-> {}, ops |-> <<"findOne">>]
    ELSE LET doc == NewContact(trim(body.name), toLowerCase(trim(body.email)),
                               trim(body.phone), trim(body.message), ip, ua)
             errs == ValidationErrors(doc)
             savedDoc == [id |-> nextId, name |-> doc.name, email |-> doc.email,
                          phone |-> doc.phone, message |-> doc.message,
                          status |-> doc.status, ipAddress |-> doc.ipAddress,
                          userAgent |-> doc.userAgent, createdAt |-> now]
         IN  IF errs # <<>>
             THEN [code |-> 400,
                   json |-> [success |-> FALSE, message |-> "Validation failed",
                             errors |-> errs],
                   saved |-> {}, ops |-> <<"findOne", "save">>]
             ELSE IF fault = "save"
             THEN [code |-> 500,
                   json |-> Failure("Internal server error. Please try again later."),
                   saved |-> {}, ops |-> <<"findOne", "save">>]
             ELSE [code |-> 201, json |-> Created(savedDoc),
                   saved |-> {savedDoc}, ops |-> <<"findOne", "save">>]

PostRequest(body, ip, ua, fault) ==
    [kind |-> "POST /contact-us", body |-> body, ip |-> ip, ua |-> ua, fault |-> fault]

\* the effect of one POST /contact-us on the server
HandlePost(body, ip, ua, fault) ==
    LET out == PostOutcome(body, ip, ua, fault)
    IN  /\ out.saved # {} => nextId <= MaxRecords
        /\ store' = store \cup out.saved
        /\ nextId' = IF out.saved # {} THEN nextId + 1 ELSE nextId
        /\ res' = Response(PostRequest(body, ip, ua, fault), out.code, out.json, out.ops)
        /\ now' = now

---------------------------------------------------------------------------
(* POST /contact-us handled concurrently: the handler of a request runs to *)
(* its first await (the findOne of the spam guard), the handlers of other  *)
(* requests run, and it goes on from the answer of findOne to its second   *)
(* await (save).  posts[k] is request k: not received, suspended between   *)
(* the two awaits ("looked"), or answered ("done", with the status code).  *)

Slots == 1..MaxConcurrent

NotReceived == [stage |-> "none"]

\* request k in stage `stage`, answered with `code` (0: not answered)
PostState(stage, req, code, saved) ==
    [stage |-> stage, req |-> req, code |-> code, saved |-> saved]

\* the handler from its start to the answer of findOne
PostLookup(k, body, ip, ua, fault) ==
    /\ posts[k] = NotReceived
    /\ LET req == PostRequest(body, ip, ua, fault)
       IN  posts' = [posts EXCEPT ![k] =
                        IF \E f \in Fields : Blank(body, f)
                        THEN PostState("done", req, 400, {})
                        ELSE IF fault = "findOne"
                        THEN PostState("done", req, 500, {})
                        ELSE IF FindRecent(body.email, body.message) # {}
                        THEN PostState("done", req, 429, {})
                        ELSE PostState("looked", req, 0, {})]
    /\ UNCHANGED <<store, nextId, now, res, stats>>

\* the document newContact.save() stores for the body of a request
SavedContact(body, ip, ua) ==
    LET doc == NewContact(trim(body.name), toLowerCase(trim(body.email)),
                          trim(body.phone), trim(body.message), ip, ua)
    IN  [id |-> nextId, name |-> doc.name, email |-> doc.email, phone |-> doc.phone,
         message |-> doc.message, status |-> doc.status, ipAddress |-> doc.ipAddress,
         userAgent |-> doc.userAgent, createdAt |-> now]

\* the handler looking for a recent record once more before it saves
PostSaveGuarded(k) ==
    /\ posts[k].stage = "looked"
    /\ LET req == posts[k].req
           savedDoc == SavedContact(req.body, req.ip, req.ua)
       IN  IF FindRecent(req.body.email, req.body.message) # {}
           THEN /\ posts' = [posts EXCEPT ![k] = PostState("done", req, 429, {})]
                /\ UNCHANGED <<store, nextId>>
           ELSE IF ValidationErrors(savedDoc) # <<>>
           THEN /\ posts' = [posts EXCEPT ![k] = PostState("done", req, 400, {})]
                /\ UNCHANGED <<store, nextId>>
           ELSE IF req.fault = "save"
           THEN /\ posts' = [posts EXCEPT ![k] = PostState("done", req, 500, {})]
                /\ UNCHANGED <<store, nextId>>
           ELSE /\ nextId <= MaxRecords
                /\ store' = store \cup {savedDoc}
                /\ nextId' = nextId + 1
                /\ posts' = [posts EXCEPT ![k] = PostState("done", req, 201, {savedDoc})]
    /\ UNCHANGED <<now, res, stats>>

\* the handler from the answer of findOne (no recent record) to its response
PostSave(k) ==
    /\ posts[k].stage = "looked"
    /\ LET req == posts[k].req
           savedDoc == SavedContact(req.body, req.ip, req.ua)
       IN  IF ValidationErrors(savedDoc) # <<>>
           THEN /\ posts' = [posts EXCEPT ![k] = PostState("done", req, 400, {})]
                /\ UNCHANGED <<store, nextId>>
           ELSE IF req.fault = "save"
           THEN /\ posts' = [posts EXCEPT ![k] = PostState("done", req, 500, {})]
                /\ UNCHANGED <<store, nextId>>
           ELSE /\ nextId <= MaxRecords
                /\ store' = store \cup {savedDoc}
                /\ nextId' = nextId + 1
                /\ posts' = [posts EXCEPT ![k] = PostState("done", req, 201, {savedDoc})]
    /\ UNCHANGED <<now, res, stats>>

---------------------------------------------------------------------------
(* GET /contacts.                                                          *)

DefaultPage == 1
DefaultLimit == 10

DigitValue(c) == CHOOSE n \in 0..9 : c = <<"0", "1", "2", "3", "4", "5", "6", "7", "8", "9">>[n + 1]

\* the value of a string of digits, most significant first
RECURSIVE DigitsValue(_)
DigitsValue(s) ==
    IF s = <<>> THEN 0
    ELSE 10 * DigitsValue(SubSeq(s, 1, Len(s) - 1)) + DigitValue(s[Len(s)])

\* the longest prefix of s made of digits
DigitPrefix(s) ==
    LET stop == {i \in 1..Len(s) : s[i] \notin Digits}
    IN  IF stop = {} THEN s ELSE SubSeq(s, 1, SetMin(stop) - 1)

\* parseInt(req.query.k): NaN for an absent parameter and for text that has no
\* leading integer
parseInt(query, k) ==
    IF k \notin DOMAIN query THEN [nan |-> TRUE, val |-> 0]
    ELSE LET t == trim(query[k])
             neg == Len(t) >= 1 /\ t[1] = "-"
             body == IF Len(t) >= 1 /\ t[1] \in {"-", "+"} THEN SubSeq(t, 2, Len(t)) ELSE t
             ds == DigitPrefix(body)
         IN  IF ds = <<>> THEN [nan |-> TRUE, val |-> 0]
             ELSE [nan |-> FALSE, val |-> IF neg THEN 0 - DigitsValue(ds) ELSE DigitsValue(ds)]

\* n || d : NaN and 0 are falsy
OrDefault(n, d) == IF n.nan \/ n.val = 0 THEN d ELSE n.val

\* Math.ceil(a / b) for a >= 0, b >= 1
Ceil(a, b) == (a + b - 1) \div b

\* the query object with req.query.status left out of it
MatchesSearchOnly(r, query) ==
    ("search" \in DOMAIN query /\ query.search # <<>>)
        => LET s == toLowerCase(query.search)
           IN  \/ Contains(toLowerCase(r.name), s)
               \/ Contains(toLowerCase(r.email), s)
               \/ Contains(toLowerCase(r.message), s)

\* the query object built from req.query.status and req.query.search, as the
\* predicate it selects documents by
Matches(r, query) ==
    /\ ("status" \in DOMAIN query /\ query.status # "" /\ query.status # "all")
           => r.status = query.status
    /\ ("search" \in DOMAIN query /\ query.search # <<>>)
           => LET s == toLowerCase(query.search)
              IN  \/ Contains(toLowerCase(r.name), s)
                  \/ Contains(toLowerCase(r.email), s)
                  \/ Contains(toLowerCase(r.message), s)

\* .sort({createdAt: -1}): every listing of S by descending createdAt (documents
\* created at the same instant come in an order the database chooses)
SortedByCreatedAtDesc(S) ==
    {f \in [1..Cardinality(S) -> S] :
        /\ \A i, j \in 1..Cardinality(S) : i # j => f[i] # f[j]
        /\ \A i \in 1..(Cardinality(S) - 1) : f[i].createdAt >= f[i + 1].createdAt}

\* .limit(limit) alone, from the first document
LimitOnly(seq, skip, limit) == SubSeq(seq, 1, IF limit < Len(seq) THEN limit ELSE Len(seq))

\* .skip(skip).limit(limit)
SkipLimit(seq, skip, limit) ==
    SubSeq(seq, skip + 1, IF skip + limit < Len(seq) THEN skip + limit ELSE Len(seq))

\* the pagination object of the response
Pagination(page, limit, total) ==
    [current |-> page, pages |-> Ceil(total, limit), total |-> total,
     hasNext |-> page < Ceil(total, limit), hasPrev |-> page > 1]

\* router.get('/contacts'): the responses it can give (one per order the
\* database may return equal createdAt in)
ListOutcomes(query, fault) ==
    LET page == OrDefault(parseInt(query, "page"), DefaultPage)
        limit == OrDefault(parseInt(query, "limit"), DefaultLimit)
        skip == (page - 1) * limit
        found == {r \in store : Matches(r, query)}
    IN  IF fault # "none" \/ skip < 0
        THEN {[code |-> 500, json |-> Failure("Error fetching contacts")]}
        ELSE {[code |-> 200,
               json |-> [success |-> TRUE, data |-> SkipLimit(order, skip, limit),
                         pagination |-> Pagination(page, limit, Cardinality(found))]] :
              order \in SortedByCreatedAtDesc(found)}

ListRequest(query, fault) == [kind |-> "GET /contacts", query |-> query, fault |-> fault]

HandleList(query, fault) ==
    \E out \in ListOutcomes(query, fault) :
        /\ res' = Response(ListRequest(query, fault), out.code, out.json, <<"find", "countDocuments">>)
        /\ UNCHANGED <<store, nextId, now>>

---------------------------------------------------------------------------
(* The endpoints addressed by :id.  An id parameter is [hex, oid]: hex says *)
(* whether the text is a well-formed ObjectId, oid is the id it denotes.    *)

\* Contact.findById(id) once the id is cast
FindById(id) == {r \in store : r.id = id.oid}

\* router.get('/contacts/:id') with the CastError branch of its catch left out
GetOutcomeCastUnhandled(id, fault) ==
    IF ~id.hex \/ fault # "none"
    THEN [code |-> 500, json |-> Failure("Error fetching contact")]
    ELSE IF FindById(id) = {} THEN [code |-> 404, json |-> Failure("Contact not found")]
    ELSE [code |-> 200, json |-> [success |-> TRUE, data |-> CHOOSE r \in FindById(id) : TRUE]]

\* router.get('/contacts/:id')
GetOutcome(id, fault) ==
    IF ~id.hex THEN [code |-> 400, json |-> Failure("Invalid contact ID")]
    ELSE IF fault # "none" THEN [code |-> 500, json |-> Failure("Error fetching contact")]
    ELSE IF FindById(id) = {} THEN [code |-> 404, json |-> Failure("Contact not found")]
    ELSE [code |-> 200, json |-> [success |-> TRUE, data |-> CHOOSE r \in FindById(id) : TRUE]]

GetRequest(id, fault) == [kind |-> "GET /contacts/:id", id |-> id, fault |-> fault]

HandleGet(id, fault) ==
    LET out == GetOutcome(id, fault)
    IN  /\ res' = Response(GetRequest(id, fault), out.code, out.json,
                           IF id.hex THEN <<"findById">> ELSE <<>>)
        /\ UNCHANGED <<store, nextId, now>>

\* the check of the status with its second half left out
BadStatusOnlyMissing(body) == "status" \notin DOMAIN body \/ body.status = ""

\* !status || !['new', 'read', 'replied', 'archived'].includes(status)
BadStatus(body) ==
    \/ "status" \notin DOMAIN body
    \/ body.status = ""
    \/ body.status \notin {"new", "read", "replied", "archived"}

\* router.patch with an update that reaches every document (updateMany)
PatchOutcomeUpdatesAll(id, body, fault) ==
    IF BadStatus(body)
    THEN [code |-> 400,
          json |-> Failure("Valid status is required: new, read, replied, or archived"),
          store |-> store, ops |-> <<>>]
    ELSE IF ~id.hex
    THEN [code |-> 400, json |-> Failure("Invalid contact ID"), store |-> store, ops |-> <<>>]
    ELSE IF fault # "none"
    THEN [code |-> 500, json |-> Failure("Error updating contact status"),
          store |-> store, ops |-> <<"findByIdAndUpdate">>]
    ELSE IF FindById(id) = {}
    THEN [code |-> 404, json |-> Failure("Contact not found"),
          store |-> store, ops |-> <<"findByIdAndUpdate">>]
    ELSE LET old == CHOOSE r \in FindById(id) : TRUE
             upd == [old EXCEPT !.status = body.status]
         IN  [code |-> 200,
              json |-> [success |-> TRUE, message |-> <<"Contact marked as ", body.status>>,
                        data |-> upd],
              store |-> {[r EXCEPT !.status = body.status] : r \in store},
              ops |-> <<"findByIdAndUpdate">>]

\* router.patch('/contacts/:id/status'): the response and the store it leaves
PatchOutcome(id, body, fault) ==
    IF BadStatus(body)
    THEN [code |-> 400,
          json |-> Failure("Valid status is required: new, read, replied, or archived"),
          store |-> store, ops |-> <<>>]
    ELSE IF ~id.hex
    THEN [code |-> 400, json |-> Failure("Invalid contact ID"), store |-> store, ops |-> <<>>]
    ELSE IF fault # "none"
    THEN [code |-> 500, json |-> Failure("Error updating contact status"),
          store |-> store, ops |-> <<"findByIdAndUpdate">>]
    ELSE IF FindById(id) = {}
    THEN [code |-> 404, json |-> Failure("Contact not found"),
          store |-> store, ops |-> <<"findByIdAndUpdate">>]
    ELSE LET old == CHOOSE r \in FindById(id) : TRUE
             upd == [old EXCEPT !.status = body.status]
         IN  [code |-> 200,
              json |-> [success |-> TRUE, message |-> <<"Contact marked as ", body.status>>,
                        data |-> upd],
              store |-> (store \ {old}) \cup {upd}, ops |-> <<"findByIdAndUpdate">>]

PatchRequest(id, body, fault) ==
    [kind |-> "PATCH /contacts/:id/status", id |-> id, body |-> body, fault |-> fault]

HandlePatch(id, body, fault) ==
    LET out == PatchOutcome(id, body, fault)
    IN  /\ store' = out.store
        /\ res' = Response(PatchRequest(id, body, fault), out.code, out.json, out.ops)
        /\ UNCHANGED <<nextId, now>>

\* router.delete('/contacts/:id')
DeleteOutcome(id, fault) ==
    IF ~id.hex
    THEN [code |-> 400, json |-> Failure("Invalid contact ID"), store |-> store, ops |-> <<>>]
    ELSE IF fault # "none"
    THEN [code |-> 500, json |-> Failure("Error deleting contact"),
          store |-> store, ops |-> <<"findByIdAndDelete">>]
    ELSE IF FindById(id) = {}
    THEN [code |-> 404, json |-> Failure("Contact not found"),
          store |-> store, ops |-> <<"findByIdAndDelete">>]
    ELSE [code |-> 200,
          json |-> [success |-> TRUE, message |-> "Contact deleted successfully"],
          store |-> store \ FindById(id), ops |-> <<"findByIdAndDelete">>]

DeleteRequest(id, fault) == [kind |-> "DELETE /contacts/:id", id |-> id, fault |-> fault]

\* the response of router.delete with the store left as it was
HandleDeleteKeeps(id, fault) ==
    LET out == DeleteOutcome(id, fault)
    IN  /\ store' = store
        /\ res' = Response(DeleteRequest(id, fault), out.code, out.json, out.ops)
        /\ UNCHANGED <<nextId, now>>

\* the effect of one DELETE /contacts/:id on the server
HandleDelete(id, fault) ==
    LET out == DeleteOutcome(id, fault)
    IN  /\ store' = out.store
        /\ res' = Response(DeleteRequest(id, fault), out.code, out.json, out.ops)
        /\ UNCHANGED <<nextId, now>>

---------------------------------------------------------------------------
(* GET /contacts/stats/summary.                                            *)

\* lastWeek.setDate(lastWeek.getDate() - 7), in days
Week == 7

\* Contact.countDocuments(filter), given the records the filter selects
CountDocuments(matching) == Cardinality(matching)

\* router.get('/contacts/stats/summary'), its five counts taken from one store
StatsOutcome(fault) ==
    IF fault # "none"
    THEN [code |-> 500, json |-> Failure("Error fetching statistics")]
    ELSE [code |-> 200,
          json |-> [success |-> TRUE,
                    data |-> [total |-> CountDocuments(store),
                              new |-> CountDocuments({r \in store : r.status = "new"}),
                              read |-> CountDocuments({r \in store : r.status = "read"}),
                              replied |-> CountDocuments({r \in store : r.status = "replied"}),
                              recent |-> CountDocuments({r \in store : r.createdAt >= now - Week})]]]

StatsRequest(fault) == [kind |-> "GET /contacts/stats/summary", fault |-> fault]

HandleStats(fault) ==
    LET out == StatsOutcome(fault)
    IN  /\ res' = Response(StatsRequest(fault), out.code, out.json, <<"countDocuments">>)
        /\ UNCHANGED <<store, nextId, now>>

---------------------------------------------------------------------------
(* GET /contacts/stats/summary handled while other requests are: the       *)
(* handler awaits each of its five countDocuments in turn, and the         *)
(* handlers of other requests run between them.  stats.stage is the number *)
(* of counts taken (0: no stats request is being handled); stats.written   *)
(* says whether a request that writes was handled since the first count.   *)

NoStats == [stage |-> 0, written |-> FALSE, total |-> 0, new |-> 0, read |-> 0, replied |-> 0]

\* the second count taken without its filter
StatsFilterNewUnfiltered(n) ==
    CASE n = 1 -> store
      [] n = 2 -> store
      [] n = 3 -> {r \in store : r.status = "read"}
      [] n = 4 -> {r \in store : r.status = "replied"}
      [] n = 5 -> {r \in store : r.createdAt >= now - Week}

\* the documents the n-th countDocuments of the handler selects
StatsFilter(n) ==
    CASE n = 1 -> store
      [] n = 2 -> {r \in store : r.status = "new"}
      [] n = 3 -> {r \in store : r.status = "read"}
      [] n = 4 -> {r \in store : r.status = "replied"}
      [] n = 5 -> {r \in store : r.createdAt >= now - Week}

\* the n-th count of the handler
StatsCount(n) == CountDocuments(StatsFilter(n))

\* one of the first four counts is taken, then the handler awaits the next
StatsQuery ==
    /\ stats.stage < 4
    /\ LET n == stats.stage + 1
           c == StatsCount(n)
       IN  stats' = [stage |-> n,
                     written |-> stats.written,
                     total |-> IF n = 1 THEN c ELSE stats.total,
                     new |-> IF n = 2 THEN c ELSE stats.new,
                     read |-> IF n = 3 THEN c ELSE stats.read,
                     replied |-> IF n = 4 THEN c ELSE stats.replied]
    /\ UNCHANGED <<store, nextId, now, res, posts>>

\* the fifth count is taken and the response is sent
StatsFinish ==
    /\ stats.stage = 4
    /\ res' = Response(StatsRequest("none"), 200,
                       [success |-> TRUE,
                        data |-> [total |-> stats.total, new |-> stats.new,
                                  read |-> stats.read, replied |-> stats.replied,
                                  recent |-> StatsCount(5)]],
                       <<"countDocuments">>)
    /\ stats' = NoStats
    /\ UNCHANGED <<store, nextId, now, posts>>

\* a countDocuments throws: the catch block answers 500
StatsThrows ==
    /\ stats.stage < 5
    /\ res' = Response(StatsRequest("db"), 500, Failure("Error fetching statistics"),
                       <<"countDocuments">>)
    /\ stats' = NoStats
    /\ UNCHANGED <<store, nextId, now, posts>>

\* a request that writes is handled; it falls between two counts when a stats
\* request has taken its first count
Written == [stats EXCEPT !.written = (stats.written \/ stats.stage >= 1)]

---------------------------------------------------------------------------
(* The form: components/ContactForm.js.                                    *)

EmptyForm == [name |-> <<>>, email |-> <<>>, phone |-> <<>>, message |-> <<>>]

\* utils/validation.js: field name -> message, for the fields that are invalid
validateForm(data) ==
    LET e == [name |-> IF trim(data.name) = <<>> THEN "Name is required"
                       ELSE IF Len(trim(data.name)) < NameMinLength
                       THEN "Name must be at least 2 characters"
                       ELSE "",
              email |-> IF trim(data.email) = <<>> THEN "Email is required"
                        ELSE IF ~EmailMatch(trim(data.email)) THEN "Email is invalid"
                        ELSE "",
              phone |-> IF trim(data.phone) = <<>> THEN "Phone is required"
                        ELSE IF ~PhoneMatch(trim(data.phone)) THEN "Phone is invalid"
                        ELSE "",
              message |-> IF trim(data.message) = <<>> THEN "Message is required"
                          ELSE IF Len(trim(data.message)) < MessageMinLength
                          THEN "Message must be at least 10 characters"
                          ELSE ""]
    IN  [f \in {g \in Fields : e[g] # ""} |-> e[f]]

\* handleChange without the clearing of the field's error
HandleChangeKeepsError(f, v) ==
    /\ formData' = [formData EXCEPT ![f] = v]
    /\ edited' = (edited \/ pc = "awaiting")
    /\ UNCHANGED <<errors, isSubmitting, submitStatus, pc, sent, reply>>
    /\ UNCHANGED serverVars

\* every error entry blanked, not only the one of the field
ClearAllErrors(f) == [g \in DOMAIN errors |-> ""]

\* if (errors[name]) setErrors(prev => ({...prev, [name]: ''}))
ClearError(f) ==
    IF f \in DOMAIN errors /\ errors[f] # ""
    THEN [errors EXCEPT ![f] = ""]
    ELSE errors

\* handleChange: the change event of input `f` carrying value v
HandleChange(f, v) ==
    /\ formData' = [formData EXCEPT ![f] = v]
    /\ errors' = ClearError(f)
    /\ edited' = (edited \/ pc = "awaiting")
    /\ UNCHANGED <<isSubmitting, submitStatus, pc, sent, reply>>
    /\ UNCHANGED serverVars

\* setErrors(formErrors) with the return after it left out, so that the
\* submission goes on
AbortSubmitNoReturn(formErrors) ==
    /\ errors' = formErrors
    /\ isSubmitting' = TRUE
    /\ submitStatus' = ""
    /\ pc' = "awaiting"
    /\ sent' = formData
    /\ reply' = 0
    /\ edited' = FALSE
    /\ UNCHANGED formData

\* if (Object.keys(formErrors).length > 0) { setErrors(formErrors); return; }
AbortSubmit(formErrors) ==
    /\ errors' = formErrors
    /\ UNCHANGED <<formData, isSubmitting, submitStatus, pc, sent, reply, edited>>

\* <button type="submit" disabled={isSubmitting}>
SubmitDisabled == isSubmitting

\* the call made without setIsSubmitting(true) before it
StartSubmitNoFlag ==
    /\ isSubmitting' = isSubmitting
    /\ submitStatus' = ""
    /\ pc' = "awaiting"
    /\ sent' = formData
    /\ reply' = 0
    /\ edited' = FALSE
    /\ UNCHANGED <<formData, errors>>

\* setIsSubmitting(true); setSubmitStatus(''); contactAPI.submitForm(formData)
StartSubmit ==
    /\ isSubmitting' = TRUE
    /\ submitStatus' = ""
    /\ pc' = "awaiting"
    /\ sent' = formData
    /\ reply' = 0
    /\ edited' = FALSE
    /\ UNCHANGED <<formData, errors>>

\* handleSubmit up to its await; the submit button is disabled while isSubmitting
HandleSubmit ==
    /\ ~SubmitDisabled
    /\ LET formErrors == validateForm(formData)
       IN  IF DOMAIN formErrors # {}
           THEN AbortSubmit(formErrors)
           ELSE StartSubmit
    /\ UNCHANGED serverVars

\* the server handles the form's POST /contact-us; its response travels back
ServeSubmission(ip, ua, fault) ==
    /\ pc = "awaiting"
    /\ reply = 0
    /\ HandlePost(sent, ip, ua, fault)
    /\ reply' = res'.code
    /\ UNCHANGED <<formData, errors, isSubmitting, submitStatus, pc, sent, edited>>
    /\ UNCHANGED concVars

\* what handleSubmit's finally block and return leave
Settled ==
    /\ isSubmitting' = FALSE
    /\ pc' = "idle"
    /\ sent' = EmptyForm
    /\ reply' = 0
    /\ edited' = FALSE

\* the await returns: axios resolves on a 2xx response
SubmitResolved ==
    /\ pc = "awaiting"
    /\ reply >= 200 /\ reply < 300
    /\ IF reply = 200
       THEN /\ submitStatus' = "Form Submitted"
            /\ formData' = EmptyForm
       ELSE UNCHANGED <<submitStatus, formData>>
    /\ Settled
    /\ UNCHANGED errors
    /\ UNCHANGED serverVars

\* the catch block, without the finally block that follows it
CaughtNoFinally ==
    /\ submitStatus' = "Error submitting form. Please try again."
    /\ isSubmitting' = isSubmitting
    /\ pc' = "idle"
    /\ sent' = EmptyForm
    /\ reply' = 0
    /\ edited' = FALSE
    /\ UNCHANGED <<formData, errors>>
    /\ UNCHANGED serverVars

\* the catch block resetting the fields as the success branch does
CaughtResetsForm ==
    /\ submitStatus' = "Error submitting form. Please try again."
    /\ formData' = EmptyForm
    /\ isSubmitting' = FALSE
    /\ pc' = "idle"
    /\ sent' = EmptyForm
    /\ reply' = 0
    /\ edited' = FALSE
    /\ UNCHANGED errors
    /\ UNCHANGED serverVars

\* the catch block, then the finally block
Caught ==
    /\ submitStatus' = "Error submitting form. Please try again."
    /\ Settled
    /\ UNCHANGED <<formData, errors>>
    /\ UNCHANGED serverVars

\* the await throws: axios rejects on a response that is not 2xx
SubmitRejected ==
    /\ pc = "awaiting"
    /\ reply # 0 /\ ~(reply >= 200 /\ reply < 300)
    /\ Caught

\* the await throws: no response within the 10 s timeout, or the connection
\* failed (before or after the server handled the request)
NetworkError ==
    /\ pc = "awaiting"
    /\ Caught

---------------------------------------------------------------------------
(* Inputs.                                                                 *)

ValidName == <<"A", "l">>
ValidEmail == <<"a", "@", "b", ".", "c", "o", "m">>
ValidPhone == <<"+", "1", "5">>
Message1 == <<"N", "e", "e", "d", " ", "h", "e", "l", "p", "!">>
Message2 == <<"H", "e", "l", "p", " ", "a", "g", "a", "i", "n">>

BaseBody == [name |-> ValidName, email |-> ValidEmail, phone |-> ValidPhone,
             message |-> Message1]

NameInputs == {<<>>, <<" ">>, <<"A">>, <<" ">> \o ValidName, Repeat("a", NameMaxLength + 1)}
EmailInputs == {<<>>, <<" ", "A">> \o Tail(ValidEmail) \o <<" ">>, <<"a", "@", "b">>}
PhoneInputs == {<<>>, <<"0", "5">>}
MessageInputs == {<<>>, <<"H", "i">>, <<" ">> \o Message1 \o <<" ">>, Message2}

\* request bodies of POST /contact-us: the valid body, the bodies that differ
\* from it in one field, bodies with other valid (email, message) pairs,
\* bodies that lack a field, and a body that carries a status
Bodies ==
    {BaseBody}
    \cup {[BaseBody EXCEPT !.name = v] : v \in NameInputs}
    \cup {[BaseBody EXCEPT !.email = v] : v \in EmailInputs}
    \cup {[BaseBody EXCEPT !.phone = v] : v \in PhoneInputs}
    \cup {[BaseBody EXCEPT !.message = v] : v \in MessageInputs}
    \cup {[BaseBody EXCEPT !.email = <<" ", "A">> \o Tail(ValidEmail) \o <<" ">>,
                           !.message = v] : v \in {<<" ">> \o Message1 \o <<" ">>, Message2}}
    \cup {[f \in Fields \ {g} |-> BaseBody[f]] : g \in Fields}
    \cup {[name |-> ValidName, email |-> ValidEmail, phone |-> ValidPhone,
           message |-> Message2, status |-> "archived"]}
    \cup {[f \in {} |-> <<>>]}

IpAddresses == {"203.0.113.7"}
UserAgents == {"Mozilla/5.0"}
PostFaults == {"none", "findOne", "save"}
Faults == {"none", "db"}

\* an optional parameter is <<>> (absent) or <<v>>
PageOpts == {<<>>, << <<"0">> >>, << <<"1">> >>, << <<"2">> >>, << <<"3">> >>}
LimitOpts == {<<>>, << <<"0">> >>, << <<"1">> >>, << <<"2">> >>}
StatusOpts == {<<>>, <<"all">>, <<"new">>, <<"read">>, <<"replied">>, <<"archived">>}
SearchOpts == {<<>>, << <<"A", "G", "A", "I", "N">> >>}

Query(p, l, st, se) ==
    LET o == [page |-> p, limit |-> l, status |-> st, search |-> se]
    IN  [k \in {j \in DOMAIN o : Len(o[j]) = 1} |-> o[k][1]]

IdParams == {[hex |-> TRUE, oid |-> i] : i \in 1..(MaxRecords + 1)}
            \cup {[hex |-> FALSE, oid |-> 0]}

PatchBodies == {[k \in {} |-> ""]} \cup {[status |-> s] : s \in Statuses \cup {"", "done"}}

\* what the user types into a field
Typed(f) ==
    CASE f = "name" -> {<<>>, ValidName, Repeat("a", NameMaxLength + 1)}
      [] f = "email" -> {<<>>, ValidEmail}
      [] f = "phone" -> {<<>>, ValidPhone}
      [] f = "message" -> {<<>>, Message1}

---------------------------------------------------------------------------
(* Specifications.                                                         *)

Init ==
    /\ store = {}
    /\ nextId = 1
    /\ now = 0
    /\ res = [req |-> [kind |-> "none"], code |-> 0, json |-> [success |-> TRUE],
              ops |-> <<>>]
    /\ formData = EmptyForm
    /\ errors = [f \in {} |-> ""]
    /\ isSubmitting = FALSE
    /\ submitStatus = ""
    /\ pc = "idle"
    /\ sent = EmptyForm
    /\ reply = 0
    /\ edited = FALSE
    /\ posts = [k \in Slots |-> NotReceived]
    /\ stats = NoStats

\* a day passes
Tick ==
    /\ now < MaxTime
    /\ now' = now + 1
    /\ UNCHANGED <<store, nextId, res>>
    /\ UNCHANGED formVars
    /\ UNCHANGED concVars

NoResponse == [req |-> [kind |-> "none"], code |-> 0, json |-> [success |-> TRUE], ops |-> <<>>]

\* no request is being handled
Idle == res = NoResponse

PostContactUs ==
    /\ Idle
    /\ \E body \in Bodies, ip \in IpAddresses, ua \in UserAgents, fault \in PostFaults :
           HandlePost(body, ip, ua, fault)
    /\ UNCHANGED formVars
    /\ UNCHANGED concVars

GetContacts ==
    /\ Idle
    /\ \E p \in PageOpts, l \in LimitOpts, st \in StatusOpts, se \in SearchOpts,
          fault \in Faults :
           HandleList(Query(p, l, st, se), fault)
    /\ UNCHANGED formVars
    /\ UNCHANGED concVars

GetContact ==
    /\ Idle
    /\ \E id \in IdParams, fault \in Faults : HandleGet(id, fault)
    /\ UNCHANGED formVars
    /\ UNCHANGED concVars

PatchContactStatus ==
    /\ Idle
    /\ \E id \in IdParams, body \in PatchBodies, fault \in Faults :
           HandlePatch(id, body, fault)
    /\ UNCHANGED formVars
    /\ UNCHANGED concVars

DeleteContact ==
    /\ Idle
    /\ \E id \in IdParams, fault \in Faults : HandleDelete(id, fault)
    /\ UNCHANGED formVars
    /\ UNCHANGED concVars

GetStats ==
    /\ Idle
    /\ \E fault \in Faults : HandleStats(fault)
    /\ UNCHANGED formVars
    /\ UNCHANGED concVars

DayPasses == Idle /\ Tick

\* the response has gone out and the request is over
Respond ==
    /\ ~Idle
    /\ res' = NoResponse
    /\ UNCHANGED <<store, nextId, now>>
    /\ UNCHANGED formVars
    /\ UNCHANGED concVars

\* the REST API driven by arbitrary clients, one request at a time: a request
\* is handled, its response (res) goes out, the next request is handled
Next ==
    \/ PostContactUs
    \/ GetContacts
    \/ GetContact
    \/ PatchContactStatus
    \/ DeleteContact
    \/ GetStats
    \/ DayPasses
    \/ Respond

Spec == Init /\ [][Next]_vars

\* a POST /contact-us handled right after the last one (res still holds the
\* previous request and its response)
PostAgain ==
    /\ \E body \in Bodies, ip \in IpAddresses, ua \in UserAgents, fault \in PostFaults :
           HandlePost(body, ip, ua, fault)
    /\ UNCHANGED formVars
    /\ UNCHANGED concVars

NextPosts ==
    \/ PostAgain
    \/ Tick

\* submissions handled one after the other
SpecPosts == Init /\ [][NextPosts]_vars

ChangeField == \E f \in Fields : \E v \in Typed(f) : HandleChange(f, v)

FormPost ==
    \E ip \in IpAddresses, ua \in UserAgents, fault \in PostFaults :
        ServeSubmission(ip, ua, fault)

\* one form and the server behind it
NextForm ==
    \/ ChangeField
    \/ HandleSubmit
    \/ FormPost
    \/ SubmitResolved
    \/ SubmitRejected
    \/ NetworkError
    \/ Tick

SpecForm == Init /\ [][NextForm]_vars

\* the submission call settles: axios resolves, rejects, or gives up after its
\* 10 s timeout
Settle == SubmitResolved \/ SubmitRejected \/ NetworkError

FairSpecForm == SpecForm /\ WF_vars(Settle)

\* bodies of the submissions that arrive together: the valid body, the same
\* (email, message) written with other case and white space, another message,
\* a name the schema rejects, an empty message
RaceBodies ==
    {BaseBody,
     [BaseBody EXCEPT !.email = <<" ", "A">> \o Tail(ValidEmail) \o <<" ">>,
                      !.message = <<" ">> \o Message1 \o <<" ">>],
     [BaseBody EXCEPT !.message = Message2],
     [BaseBody EXCEPT !.name = <<"A">>],
     [BaseBody EXCEPT !.message = <<>>]}

ReceivePost ==
    /\ \E k \in Slots, body \in RaceBodies, ip \in IpAddresses, ua \in UserAgents,
          fault \in PostFaults :
           PostLookup(k, body, ip, ua, fault)
    /\ UNCHANGED formVars

SavePost ==
    /\ \E k \in Slots : PostSave(k)
    /\ UNCHANGED formVars

NextRace ==
    \/ ReceivePost
    \/ SavePost
    \/ Tick

\* submissions that arrive while others are being handled
SpecRace == Init /\ [][NextRace]_vars

\* the requests that write, handled while a stats request is
StatsBodies == {BaseBody, [BaseBody EXCEPT !.message = Message2]}
StatsStatuses == {"read", "replied"}

WritePost ==
    /\ \E body \in StatsBodies, ip \in IpAddresses, ua \in UserAgents :
           HandlePost(body, ip, ua, "none")
    /\ stats' = Written
    /\ UNCHANGED posts
    /\ UNCHANGED formVars

WritePatch ==
    /\ \E i \in 1..MaxRecords, st \in StatsStatuses :
           HandlePatch([hex |-> TRUE, oid |-> i], [status |-> st], "none")
    /\ stats' = Written
    /\ UNCHANGED posts
    /\ UNCHANGED formVars

WriteDelete ==
    /\ \E i \in 1..MaxRecords : HandleDelete([hex |-> TRUE, oid |-> i], "none")
    /\ stats' = Written
    /\ UNCHANGED posts
    /\ UNCHANGED formVars

CountStats == StatsQuery /\ UNCHANGED formVars
AnswerStats == StatsFinish /\ UNCHANGED formVars
FailStats == StatsThrows /\ UNCHANGED formVars

NextStats ==
    \/ CountStats
    \/ AnswerStats
    \/ FailStats
    \/ WritePost
    \/ WritePatch
    \/ WriteDelete

\* stats requests handled one at a time while submissions, status updates and
\* deletes are handled
SpecStats == Init /\ [][NextStats]_vars

---------------------------------------------------------------------------
(* Properties.                                                             *)

PostKind == "POST /contact-us"
ListKind == "GET /contacts"
GetKind == "GET /contacts/:id"
PatchKind == "PATCH /contacts/:id/status"
DeleteKind == "DELETE /contacts/:id"

ErrorStatus == "Error submitting form. Please try again."

\* C1: whenever the Submission Endpoint accepts a submission of the form (the
\* 201 response sent after the record is saved reaches handleSubmit), the form
\* ends with a non-empty success status message and with all four fields reset
\* to the empty string.
C1_AcceptedSubmissionResetsForm ==
    [][(SubmitResolved /\ reply = 201)
          => /\ submitStatus' # ""
             /\ submitStatus' # ErrorStatus
             /\ formData' = EmptyForm]_vars

\* the step handles a POST /contact-us right after a POST /contact-us that was
\* persisted
C2_SecondPost ==
    /\ res.req.kind = PostKind
    /\ res.code = 201
    /\ res'.req.kind = PostKind
    /\ res' # res

\* C2 as claimed: of two submissions handled one after the other with the same
\* email, the second is rejected with 429 (store unchanged) when it carries the
\* same message and the first was persisted less than 24 hours before, and is
\* persisted with 201 when the first is older than 24 hours or its message
\* differs.  (The second request is taken to differ from the first in nothing
\* but its message, and to carry a message the schema accepts.)
C2_AsClaimed ==
    [][(/\ C2_SecondPost
        /\ res'.req.fault = "none"
        /\ DOMAIN res'.req.body = Fields
        /\ \A f \in Fields \ {"message"} : res'.req.body[f] = res.req.body[f]
        /\ MessageError(trim(res'.req.body.message)) = <<>>)
          => /\ (/\ res'.req.body.message = res.req.body.message
                 /\ now - res.json.data.submittedAt < Window)
                    => (res'.code = 429 /\ store' = store)
             /\ (\/ res'.req.body.message # res.req.body.message
                 \/ now - res.json.data.submittedAt > Window)
                    => (res'.code = 201 /\ store' # store /\ store \subseteq store')]_vars

\* C2 (amended): of two submissions handled one after the other, the first
\* persisted: if the second carries all four fields and its email and message
\* equal the first's after trimming (and lowercasing the email), and the first
\* was persisted less than 24 hours before, the second is rejected with 429 and
\* the store is unchanged; if the first is older than 24 hours or the trimmed
\* messages differ, and the second passes the schema and no record stored in the
\* last 24 hours has its trimmed, lowercased email and trimmed message, the
\* second is persisted and answered with 201.
C2_SpamGuard ==
    [][(/\ C2_SecondPost
        /\ \A f \in Fields : f \in DOMAIN res'.req.body /\ res'.req.body[f] # <<>>
        /\ toLowerCase(trim(res'.req.body.email)) = toLowerCase(trim(res.req.body.email)))
          => LET a == res.req.body
                 b == res'.req.body
                 t0 == res.json.data.submittedAt
                 doc == [name |-> trim(b.name), email |-> toLowerCase(trim(b.email)),
                         phone |-> trim(b.phone), message |-> trim(b.message)]
             IN  /\ (/\ trim(b.message) = trim(a.message)
                     /\ now - t0 < Window
                     /\ res'.req.fault # "findOne")
                        => (res'.code = 429 /\ store' = store)
                 /\ (/\ trim(b.message) # trim(a.message) \/ now - t0 > Window
                     /\ ValidationErrors(doc) = <<>>
                     /\ ~\E r \in store : /\ r.email = doc.email
                                          /\ r.message = doc.message
                                          /\ now - r.createdAt <= Window
                     /\ res'.req.fault = "none")
                        => /\ res'.code = 201
                           /\ \E r \in store' \ store :
                                 /\ store' = store \cup {r}
                                 /\ r.id = res'.json.data.id
                                 /\ r.email = doc.email
                                 /\ r.message = doc.message
                                 /\ r.createdAt = now]_vars

\* a resubmission has been rejected while the store holds two records with the
\* same email and message (the second one accepted after 24 hours)
C2_Witness ==
    /\ res.req.kind = PostKind
    /\ res.code = 429
    /\ \E r1, r2 \in store :
          r1.id # r2.id /\ r1.email = r2.email /\ r1.message = r2.message

\* C3: every submit that sets isSubmitting is followed by isSubmitting being
\* false once the call has settled, however it settles; isSubmitting is never
\* true after the call has settled.
C3_SubmittingClears ==
    /\ [](pc = "idle" => ~isSubmitting)
    /\ (isSubmitting ~> ~isSubmitting)

\* a submission has settled by rejection and isSubmitting is false again
C3_Witness ==
    /\ pc = "idle"
    /\ ~isSubmitting
    /\ submitStatus = ErrorStatus

\* C4: a PATCH /contacts/:id/status whose status is missing or is not one of
\* new, read, replied, archived is rejected with 400 and leaves every stored
\* record as it was.
C4_BadStatusRejected ==
    [][(/\ res'.req.kind = PatchKind
        /\ res' # res
        /\ \/ "status" \notin DOMAIN res'.req.body
           \/ res'.req.body.status \notin Statuses)
          => (res'.code = 400 /\ store' = store)]_vars

\* a status outside the enum was sent for a stored record and was rejected
C4_Witness ==
    /\ res.req.kind = PatchKind
    /\ "status" \in DOMAIN res.req.body
    /\ res.req.body.status = "done"
    /\ res.req.id.hex
    /\ \E r \in store : r.id = res.req.id.oid
    /\ res.code = 400

\* the step handles a request for a well-formed id that no stored record has,
\* and the store works
C5_AbsentId ==
    /\ res' # res
    /\ res'.req.kind \in {GetKind, PatchKind, DeleteKind}
    /\ res'.req.id.hex
    /\ res'.req.fault = "none"
    /\ ~\E r \in store : r.id = res'.req.id.oid

\* the step handles a DELETE for a well-formed id, and the store works
C5_Delete ==
    /\ res' # res
    /\ res'.req.kind = DeleteKind
    /\ res'.req.id.hex
    /\ res'.req.fault = "none"

\* an id that was given to a record and is stored no longer is never stored again
C5_IdsNotReused ==
    \A i \in 1..(nextId - 1) :
        (~\E r \in store : r.id = i) => (~\E r \in store' : r.id = i)

\* DELETE on a stored id removes exactly that record and answers 200
C5_DeleteRemovesOne ==
    (C5_Delete /\ \E r \in store : r.id = res'.req.id.oid)
        => /\ res'.code = 200
           /\ \E r \in store : /\ r.id = res'.req.id.oid
                               /\ store' = store \ {r}
           /\ ~\E r \in store' : r.id = res'.req.id.oid

\* C5 as claimed: DELETE on a well-formed id that no record has answers 404 and
\* leaves the store unchanged; DELETE on a stored id removes exactly that record
\* and answers 200; from then on the id is never stored again, and every GET,
\* PATCH status or DELETE for it answers 404.
C5_AsClaimed ==
    [][/\ C5_IdsNotReused
       /\ C5_DeleteRemovesOne
       /\ (C5_AbsentId /\ res'.req.kind = DeleteKind) => (res'.code = 404 /\ store' = store)
       /\ (C5_AbsentId /\ res'.req.id.oid < nextId) => (res'.code = 404 /\ store' = store)]_vars

\* C5 (amended): as claimed, except that a PATCH status for an id that is not
\* stored answers 404 when it carries one of the four statuses (the status is
\* checked before the record is looked up, so any other PATCH answers 400).
C5_DeletedStaysDeleted ==
    [][/\ C5_IdsNotReused
       /\ C5_DeleteRemovesOne
       /\ (/\ C5_AbsentId
           /\ res'.req.kind = PatchKind
                 => ("status" \in DOMAIN res'.req.body /\ res'.req.body.status \in Statuses))
             => (res'.code = 404 /\ store' = store)
       /\ (/\ C5_AbsentId
           /\ res'.req.kind = PatchKind
           /\ ~("status" \in DOMAIN res'.req.body /\ res'.req.body.status \in Statuses))
             => (res'.code = 400 /\ store' = store)]_vars

\* a record was deleted and a later PATCH with a valid status for its id was
\* answered 404, while a record created after it is stored
C5_Witness ==
    /\ res.req.kind = PatchKind
    /\ res.code = 404
    /\ res.req.id.oid < nextId
    /\ store # {}
    /\ \A r \in store : r.id > res.req.id.oid

\* C6: a GET /contacts with page p >= 1 and limit L >= 1 (a missing or zero
\* page counts as 1, a missing or zero limit as 10) over N records matching the
\* filter answers with min(L, max(0, N - (p-1)*L)) records, taken in descending
\* createdAt order from offset (p-1)*L, and with total = N, pages = ceil(N/L),
\* current = p, hasPrev iff p > 1, hasNext iff p < ceil(N/L); with p = 2,
\* L = 10, N = 15 that is 5 records, pages = 2, hasPrev, not hasNext.
C6_Pagination ==
    [][(res' # res /\ res'.req.kind = ListKind /\ res'.req.fault = "none")
          => LET q == res'.req.query
                 digit == <<"1", "2", "3", "4", "5", "6", "7", "8", "9">>
                 Num(k, d) == IF k \notin DOMAIN q \/ q[k] = <<"0">> THEN d
                              ELSE CHOOSE n \in 1..9 : q[k] = <<digit[n]>>
                 p == Num("page", 1)
                 L == Num("limit", 10)
                 M == {r \in store : Matches(r, q)}
                 N == Cardinality(M)
                 off == (p - 1) * L
                 rest == IF N - off > 0 THEN N - off ELSE 0
                 len == IF L < rest THEN L ELSE rest
                 pages == CHOOSE c \in 0..N : c * L >= N /\ (c = 0 \/ (c - 1) * L < N)
                 data == res'.json.data
                 pg == res'.json.pagination
             IN  /\ res'.code = 200
                 /\ Len(data) = len
                 /\ \E all \in [1..N -> M] :
                       /\ \A i, j \in 1..N : i < j => all[i] # all[j]
                       /\ \A i, j \in 1..N : i < j => all[i].createdAt >= all[j].createdAt
                       /\ \A i \in 1..len : data[i] = all[off + i]
                 /\ pg.total = N
                 /\ pg.pages = pages
                 /\ pg.current = p
                 /\ pg.hasPrev = (p > 1)
                 /\ pg.hasNext = (p < pages)
                 /\ Len(SkipLimit([i \in 1..15 |-> i], (2 - 1) * 10, 10)) = 5
                 /\ Pagination(2, 10, 15).pages = 2
                 /\ Pagination(2, 10, 15).hasPrev
                 /\ ~Pagination(2, 10, 15).hasNext
                 /\ store' = store]_vars

\* the second page of one record each was asked of a store of two records and
\* holds the older record
C6_Witness ==
    /\ res.req.kind = ListKind
    /\ res.code = 200
    /\ DOMAIN res.req.query = {"page", "limit"}
    /\ res.req.query.page = <<"2">>
    /\ res.req.query.limit = <<"1">>
    /\ Cardinality(store) = 2
    /\ Len(res.json.data) = 1
    /\ \A r \in store : r.createdAt >= res.json.data[1].createdAt
    /\ \E r \in store : r.createdAt > res.json.data[1].createdAt
    /\ res.json.pagination.hasPrev
    /\ ~res.json.pagination.hasNext

\* C7: when handleSubmit runs and validateForm finds an error, errors becomes
\* exactly the map validateForm returned, no submission call is made (the server
\* is left alone), isSubmitting stays false, and the field values and the status
\* message are unchanged.
C7_InvalidSubmitAborts ==
    [][(HandleSubmit /\ DOMAIN validateForm(formData) # {})
          => /\ errors' = validateForm(formData)
             /\ ~isSubmitting /\ ~isSubmitting'
             /\ pc' = "idle"
             /\ sent' = sent
             /\ formData' = formData
             /\ submitStatus' = submitStatus
             /\ UNCHANGED serverVars]_vars

\* a form with a valid name and the other fields empty was submitted and shows
\* the errors of the three other fields
C7_Witness ==
    /\ formData.name = ValidName
    /\ DOMAIN errors = {"email", "phone", "message"}
    /\ errors = validateForm(formData)
    /\ pc = "idle"
    /\ ~isSubmitting

\* the submission call of the form fails: it rejects on a response that is not
\* 2xx, or on a network failure
C8_SubmissionFails == SubmitRejected \/ NetworkError

\* C8 as claimed: whenever a submission of the form fails, the form ends with a
\* non-empty error status message and with the four fields holding the values
\* they had when the submit started.
C8_AsClaimed ==
    [][C8_SubmissionFails => (submitStatus' # "" /\ formData' = sent)]_vars

\* C8 (amended): whenever a submission of the form fails, the form ends with the
\* error status message and the failure changes no field; the fields hold the
\* values they had when the submit started unless the user changed a field while
\* the call was in flight.
C8_FailureKeepsFields ==
    [][C8_SubmissionFails
          => /\ submitStatus' = ErrorStatus
             /\ formData' = formData
             /\ ~edited => formData' = sent]_vars

\* a resubmission of the form was rejected as a duplicate: the form shows the
\* error message and still holds the submitted values
C8_Witness ==
    /\ res.req.kind = PostKind
    /\ res.code = 429
    /\ pc = "idle"
    /\ submitStatus = ErrorStatus
    /\ formData = res.req.body
    /\ formData # EmptyForm

\* the step answers a GET /contacts with a list, the store working
C9_Listed ==
    /\ res' # res
    /\ res'.req.kind = ListKind
    /\ res'.req.fault = "none"

\* the records the search parameter of the request lets through (all of them
\* when there is none)
C9_Searched ==
    LET q == res'.req.query
    IN  {r \in store :
            "search" \in DOMAIN q
                => \/ Contains(toLowerCase(r.name), toLowerCase(q.search))
                   \/ Contains(toLowerCase(r.email), toLowerCase(q.search))
                   \/ Contains(toLowerCase(r.message), toLowerCase(q.search))}

\* C9 as claimed: GET /contacts with status=s, s one of the four statuses,
\* returns only records of status s and counts in total exactly the records of
\* status s; with status omitted or 'all' no record is left out for its status.
C9_AsClaimed ==
    [][C9_Listed
          => LET q == res'.req.query
                 data == res'.json.data
             IN  /\ res'.code = 200
                 /\ ("status" \in DOMAIN q /\ q.status \in Statuses)
                       => /\ \A i \in 1..Len(data) : data[i].status = q.status
                          /\ res'.json.pagination.total
                                = Cardinality({r \in store : r.status = q.status})
                 /\ ("status" \notin DOMAIN q \/ q.status = "all")
                       => res'.json.pagination.total = Cardinality(C9_Searched)]_vars

\* C9 (amended): GET /contacts with status=s returns only stored records of
\* status s and counts in total exactly the records of status s that the search
\* parameter, if there is one, lets through (all records of status s when there
\* is none); with status omitted or 'all', total counts every record the search
\* lets through, whatever its status.
C9_StatusFilter ==
    [][C9_Listed
          => LET q == res'.req.query
                 data == res'.json.data
             IN  /\ res'.code = 200
                 /\ \A i \in 1..Len(data) : data[i] \in C9_Searched
                 /\ ("status" \in DOMAIN q /\ q.status \in Statuses)
                       => /\ \A i \in 1..Len(data) : data[i].status = q.status
                          /\ res'.json.pagination.total
                                = Cardinality({r \in C9_Searched : r.status = q.status})
                          /\ "search" \notin DOMAIN q
                                => res'.json.pagination.total
                                      = Cardinality({r \in store : r.status = q.status})
                 /\ ("status" \notin DOMAIN q \/ q.status = "all")
                       => res'.json.pagination.total = Cardinality(C9_Searched)]_vars

\* status=read was asked of a store that holds a record that is read and one
\* that is not, and one record was counted and returned
C9_Witness ==
    /\ res.req.kind = ListKind
    /\ res.code = 200
    /\ DOMAIN res.req.query = {"status"}
    /\ res.req.query.status = "read"
    /\ Cardinality(store) = 2
    /\ res.json.pagination.total = 1
    /\ Len(res.json.data) = 1
    /\ res.json.data[1].status = "read"

\* C10: a POST /contact-us in which name, email, phone or message is missing or
\* empty is answered 400; it does not query the spam guard (no store operation
\* at all) and the stored records are as they were.
C10_MissingFieldRejected ==
    [][(/\ res' # res
        /\ res'.req.kind = PostKind
        /\ \E f \in Fields : f \notin DOMAIN res'.req.body \/ res'.req.body[f] = <<>>)
          => /\ res'.code = 400
             /\ res'.ops = <<>>
             /\ store' = store
             /\ nextId' = nextId]_vars

\* a submission with an empty message, the same as a stored record in its other
\* fields, was answered 400
C10_Witness ==
    /\ res.req.kind = PostKind
    /\ res.code = 400
    /\ DOMAIN res.req.body = Fields
    /\ res.req.body.message = <<>>
    /\ \E r \in store : r.email = res.req.body.email

\* C11: at the moment a submit passes validation (validateForm returns no
\* errors), no field of the error state holds a non-empty message, and none
\* does when the step is over: no inline error of an earlier failed submit is
\* still displayed.
C11_NoStaleErrors ==
    [][(HandleSubmit /\ DOMAIN validateForm(formData) = {})
          => /\ \A f \in DOMAIN errors : errors[f] = ""
             /\ \A f \in DOMAIN errors' : errors'[f] = ""
             /\ pc' = "awaiting"]_vars

\* a submit that failed on all four fields was followed by corrections and by a
\* submit that passed validation: the call is in flight, the four error entries
\* are there and are empty
C11_Witness ==
    /\ pc = "awaiting"
    /\ DOMAIN errors = Fields
    /\ \A f \in Fields : errors[f] = ""
    /\ sent = BaseBody

\* C12: a change event on field f carrying value v sets formData[f] to v and
\* leaves the three other field values as they were; an error message of f
\* becomes empty; the error entries of every other field, isSubmitting and the
\* status message are unchanged.
C12_ChangeFrame ==
    [][\A f \in Fields : \A v \in Typed(f) :
          HandleChange(f, v)
             => /\ formData'[f] = v
                /\ \A g \in Fields \ {f} : formData'[g] = formData[g]
                /\ (f \in DOMAIN errors /\ errors[f] # "") => errors'[f] = ""
                /\ DOMAIN errors' = DOMAIN errors
                /\ \A g \in DOMAIN errors \ {f} : errors'[g] = errors[g]
                /\ isSubmitting' = isSubmitting
                /\ submitStatus' = submitStatus]_vars

\* after a submit that failed on all four fields the name was typed: its error
\* is blank, the three other errors are still shown
C12_Witness ==
    /\ DOMAIN errors = Fields
    /\ formData.name = ValidName
    /\ errors.name = ""
    /\ \A g \in Fields \ {"name"} : formData[g] = <<>> /\ errors[g] # ""

\* the step handles a GET /contacts/:id, a DELETE /contacts/:id or a PATCH
\* /contacts/:id/status that carries one of the four statuses
C13_IdRequest ==
    /\ res' # res
    /\ \/ res'.req.kind \in {GetKind, DeleteKind}
       \/ /\ res'.req.kind = PatchKind
          /\ "status" \in DOMAIN res'.req.body
          /\ res'.req.body.status \in Statuses

\* C13: GET /contacts/:id, PATCH /contacts/:id/status with a valid status and
\* DELETE /contacts/:id each answer 400 when the id is malformed and 404 when
\* the id is well-formed and no stored record has it, the store unchanged in
\* both cases; a PATCH with a valid status for a stored id answers 200 with the
\* record, whose status is the requested one.
C13_IdEndpoints ==
    [][C13_IdRequest
          => LET id == res'.req.id
                 hit == {r \in store : r.id = id.oid}
             IN  /\ ~id.hex => (res'.code = 400 /\ store' = store)
                 /\ (id.hex /\ hit = {} /\ res'.req.fault = "none")
                       => (res'.code = 404 /\ store' = store)
                 /\ (id.hex /\ hit # {} /\ res'.req.fault = "none"
                        /\ res'.req.kind = PatchKind)
                       => /\ res'.code = 200
                          /\ res'.json.data.id = id.oid
                          /\ res'.json.data.status = res'.req.body.status
                          /\ res'.json.data \in store'
                          /\ \A r \in store' : r.id = id.oid => r = res'.json.data]_vars

\* a PATCH with a valid status and a malformed id was answered 400 while the
\* store holds a record
C13_Witness ==
    /\ res.req.kind = PatchKind
    /\ ~res.req.id.hex
    /\ "status" \in DOMAIN res.req.body
    /\ res.req.body.status = "read"
    /\ res.code = 400
    /\ store # {}

\* C14: the submit control is disabled in every state where isSubmitting is
\* true; isSubmitting is true for as long as a submission request is in flight;
\* so a submit fired through the enabled control never starts a request while
\* another request of the form is in flight.
C14_OneInFlight ==
    /\ [](isSubmitting => SubmitDisabled)
    /\ [](pc = "awaiting" => isSubmitting)
    /\ [][(HandleSubmit /\ pc' = "awaiting") => (pc = "idle" /\ reply = 0)]_vars

\* the form's request has been handled by the server and its response has not
\* reached the form: the control is disabled
C14_Witness ==
    /\ pc = "awaiting"
    /\ reply = 201
    /\ isSubmitting
    /\ SubmitDisabled
    /\ ~ENABLED HandleSubmit

\* C15: the lookup of the spam guard and the save are separate store
\* operations: a request whose lookup found no recent record is persisted and
\* answered 201 even when, by the time it saves, another request has stored a
\* record with the same (email, message) within the last 24 hours; the store
\* then holds two such records.  (That both requests of an identical pair can
\* get there is the reachability of C15_Witness.)
C15_RaceBothPersist ==
    [][\A k \in Slots :
          (/\ posts[k].stage = "looked"
           /\ posts'[k].stage = "done"
           /\ posts[k].req.fault = "none"
           /\ LET b == posts[k].req.body
              IN  /\ ValidationErrors([name |-> trim(b.name),
                                       email |-> toLowerCase(trim(b.email)),
                                       phone |-> trim(b.phone),
                                       message |-> trim(b.message)]) = <<>>
                  /\ \E r \in store : /\ r.email = toLowerCase(trim(b.email))
                                      /\ r.message = trim(b.message)
                                      /\ r.createdAt >= now - Window)
             => /\ posts'[k].code = 201
                /\ \E r1 \in store : \E r2 \in store' \ store :
                      /\ store' = store \cup {r2}
                      /\ r2.id # r1.id
                      /\ r2.email = r1.email
                      /\ r2.message = r1.message
                      /\ r2.createdAt - r1.createdAt <= Window]_vars

\* two requests with the identical body were both answered 201 and the store
\* holds their two records, with the same email and message, created at the
\* same time
C15_Witness ==
    /\ posts[1].stage = "done" /\ posts[1].code = 201
    /\ posts[2].stage = "done" /\ posts[2].code = 201
    /\ posts[1].req.body = posts[2].req.body
    /\ \E r1, r2 \in store :
          /\ r1.id # r2.id
          /\ r1.email = r2.email
          /\ r1.message = r2.message
          /\ r1.createdAt = r2.createdAt

\* the schema rules, on the four values as they are stored
C16_Rules(name, email, phone, message) ==
    /\ trim(name) = name
    /\ Len(name) >= NameMinLength /\ Len(name) <= NameMaxLength
    /\ trim(message) = message
    /\ Len(message) >= MessageMinLength /\ Len(message) <= MessageMaxLength
    /\ email # <<>> /\ EmailMatch(email) /\ toLowerCase(email) = email
    /\ phone # <<>> /\ PhoneMatch(phone)

\* every stored record satisfies the schema rules
C16_StoreValid ==
    \A r \in store : C16_Rules(r.name, r.email, r.phone, r.message)

\* the step handles a POST /contact-us that passes the presence check and whose
\* values, trimmed (the email lowercased), break a schema rule
C16_InvalidPost ==
    /\ res' # res
    /\ res'.req.kind = PostKind
    /\ \A f \in Fields : f \in DOMAIN res'.req.body /\ res'.req.body[f] # <<>>
    /\ LET b == res'.req.body
       IN  ~C16_Rules(trim(b.name), toLowerCase(trim(b.email)), trim(b.phone),
                      trim(b.message))

\* the spam guard has a record for the request of the step
C16_Guarded ==
    LET b == res'.req.body
    IN  \E r \in store : /\ r.email = toLowerCase(trim(b.email))
                         /\ r.message = trim(b.message)
                         /\ r.createdAt >= now - Window

\* C16 as claimed: every record in the store satisfies the schema rules, and a
\* POST /contact-us that passes the presence check and breaks a rule is
\* answered 400 with the field error messages and persists nothing.
C16_AsClaimed ==
    /\ []C16_StoreValid
    /\ [][(C16_InvalidPost /\ res'.req.fault = "none")
             => /\ res'.code = 400
                /\ res'.json.errors # <<>>
                /\ store' = store]_vars

\* C16 (amended): every record in the store satisfies the schema rules; a POST
\* /contact-us that passes the presence check and breaks a rule persists
\* nothing, and is answered 400 with the field error messages unless the spam
\* guard, which runs first, has a record of the last 24 hours with its email
\* and message: then it is answered 429.
C16_SchemaRules ==
    /\ []C16_StoreValid
    /\ [][C16_InvalidPost
             => /\ store' = store
                /\ (res'.req.fault = "none" /\ ~C16_Guarded)
                      => /\ res'.code = 400
                         /\ res'.json.message = "Validation failed"
                         /\ res'.json.errors # <<>>
                /\ (res'.req.fault = "none" /\ C16_Guarded) => res'.code = 429]_vars

\* a submission with a name of white space only was answered 400 with the
\* message of the name, while the store holds a record
C16_Witness ==
    /\ res.req.kind = PostKind
    /\ DOMAIN res.req.body = Fields
    /\ res.req.body.name = <<" ">>
    /\ res.code = 400
    /\ res.json.message = "Validation failed"
    /\ res.json.errors = <<"Name is required">>
    /\ store # {}

\* the fields of a record that no endpoint writes after creation
C17_Fixed(r) ==
    <<r.id, r.name, r.email, r.phone, r.message, r.ipAddress, r.userAgent, r.createdAt>>

\* C17: over any sequence of endpoint calls a stored record's id, name, email,
\* phone, message, ipAddress, userAgent and createdAt never change; a status
\* update changes nothing but the status of the record it addresses; a delete
\* removes nothing but the record it addresses; list, get-by-id and stats
\* change no record; a record comes into the store only by a POST /contact-us.
C17_RecordsImmutable ==
    [][/\ \A r \in store : \A q \in store' : q.id = r.id => C17_Fixed(q) = C17_Fixed(r)
       /\ \A q, r \in store' : q.id = r.id => q = r
       /\ (res' # res /\ res'.req.kind = PatchKind)
             => /\ {r.id : r \in store'} = {r.id : r \in store}
                /\ \A r \in store : r.id # res'.req.id.oid => r \in store'
                /\ res'.code # 200 => store' = store
       /\ (res' # res /\ res'.req.kind = DeleteKind)
             => /\ store' \subseteq store
                /\ \A r \in store : r.id # res'.req.id.oid => r \in store'
                /\ res'.code # 200 => store' = store
       /\ (res' # res /\ res'.req.kind \notin {PostKind, PatchKind, DeleteKind})
             => store' = store
       /\ (\E q \in store' : \A r \in store : r.id # q.id)
             => (res' # res /\ res'.req.kind = PostKind /\ res'.code = 201)
       /\ (res' # res /\ res'.req.kind = PostKind) => store \subseteq store']_vars

\* a status update was answered 200 and the store holds the updated record
\* next to a record that still has the status it was created with
C17_Witness ==
    /\ res.req.kind = PatchKind
    /\ res.code = 200
    /\ res.json.data.status = "replied"
    /\ \E q, r \in store :
          /\ q.id = res.req.id.oid
          /\ q.status = "replied"
          /\ r.id # q.id
          /\ r.status = "new"

\* C18: every stored record's status is one of new, read, replied, archived; a
\* record enters the store with status new, whatever the body of the POST
\* /contact-us carries, and its status stays what it is in every step but a
\* status update answered 200 and addressed to it: so it is new until the
\* first successful status update addressed to it.
C18_StatusNewUntilUpdated ==
    /\ [](\A r \in store : r.status \in Statuses)
    /\ [][/\ \A q \in store' : (\A r \in store : r.id # q.id) => q.status = "new"
          /\ \A r \in store : \A q \in store' :
                (q.id = r.id /\ q.status # r.status)
                   => /\ res' # res
                      /\ res'.req.kind = PatchKind
                      /\ res'.code = 200
                      /\ res'.req.id.oid = r.id
                      /\ q.status = res'.req.body.status]_vars

\* a POST /contact-us whose body carries status 'archived' was answered 201 and
\* its record is stored with status new
C18_Witness ==
    /\ res.req.kind = PostKind
    /\ res.code = 201
    /\ "status" \in DOMAIN res.req.body
    /\ res.req.body.status = "archived"
    /\ \E r \in store : r.id = res.json.data.id /\ r.status = "new"

\* C19: the spam guard compares email and message as they are stored (trimmed,
\* the email lowercased): a submission handled right after one that was
\* persisted less than 24 hours before, and whose email or message differs from
\* the first's only by surrounding white space or by the case of the letters of
\* the email, is rejected with 429 and persists nothing.
C19_NormalisedGuard ==
    [][(/\ C2_SecondPost
        /\ now - res.json.data.submittedAt < Window
        /\ \A f \in Fields : f \in DOMAIN res'.req.body /\ res'.req.body[f] # <<>>
        /\ \/ res'.req.body.email # res.req.body.email
           \/ res'.req.body.message # res.req.body.message
        /\ toLowerCase(trim(res'.req.body.email)) = toLowerCase(trim(res.req.body.email))
        /\ trim(res'.req.body.message) = trim(res.req.body.message)
        /\ res'.req.fault # "findOne")
          => /\ res'.code = 429
             /\ store' = store
             /\ nextId' = nextId]_vars

\* a submission whose email is written in capitals between spaces and whose
\* message is written between spaces was rejected with 429; the stored record
\* has them trimmed and lowercased
C19_Witness ==
    /\ res.req.kind = PostKind
    /\ res.code = 429
    /\ res.req.body.email # toLowerCase(trim(res.req.body.email))
    /\ res.req.body.message # trim(res.req.body.message)
    /\ Cardinality(store) = 1
    /\ \E r \in store : /\ r.email = toLowerCase(trim(res.req.body.email))
                        /\ r.message = trim(res.req.body.message)

\* the step sends the 200 response of a stats request
C20_StatsAnswered ==
    /\ stats.stage = 4
    /\ stats'.stage = 0
    /\ res'.req.kind = StatsRequest("none").kind
    /\ res'.code = 200

\* the five counts of a store state
C20_CountsOf(records) ==
    [total |-> Cardinality(records),
     new |-> Cardinality({r \in records : r.status = "new"}),
     read |-> Cardinality({r \in records : r.status = "read"}),
     replied |-> Cardinality({r \in records : r.status = "replied"}),
     recent |-> Cardinality({r \in records : now - r.createdAt <= Week})]

\* C20 as claimed: every response of GET /contacts/stats/summary carries the
\* counts of the store as it is when the response is sent, with
\* new + read + replied <= total and recent <= total, whatever was handled
\* between the five count queries.
C20_AsClaimed ==
    [][C20_StatsAnswered
          => LET d == res'.json.data
             IN  /\ d = C20_CountsOf(store)
                 /\ d.new + d.read + d.replied <= d.total
                 /\ d.recent <= d.total]_vars

\* C20 (amended): each of the five counts of a GET /contacts/stats/summary is
\* the count of the store at the moment of its own query; the response carries
\* the five counts as they were taken; when no submission, status update or
\* delete was handled since the first query the response carries the counts of
\* the store as it is, so that new + read + replied <= total and
\* recent <= total.
C20_CountsPerQuery ==
    [][/\ (stats'.stage = stats.stage + 1)
             => LET c == C20_CountsOf(store)
                IN  /\ store' = store
                    /\ stats'.total = (IF stats'.stage = 1 THEN c.total ELSE stats.total)
                    /\ stats'.new = (IF stats'.stage = 2 THEN c.new ELSE stats.new)
                    /\ stats'.read = (IF stats'.stage = 3 THEN c.read ELSE stats.read)
                    /\ stats'.replied = (IF stats'.stage = 4 THEN c.replied ELSE stats.replied)
       /\ C20_StatsAnswered
             => LET d == res'.json.data
                IN  /\ store' = store
                    /\ d.total = stats.total
                    /\ d.new = stats.new
                    /\ d.read = stats.read
                    /\ d.replied = stats.replied
                    /\ d.recent = C20_CountsOf(store).recent
                    /\ ~stats.written
                          => /\ d = C20_CountsOf(store)
                             /\ d.new + d.read + d.replied <= d.total
                             /\ d.recent <= d.total]_vars

\* a stats response that no store state has: a submission was handled after
\* the total had been counted, so the response counts more new and more recent
\* records than records
C20_Witness ==
    /\ res.req.kind = StatsRequest("none").kind
    /\ res.code = 200
    /\ res.json.data.total = 0
    /\ res.json.data.new = 1
    /\ res.json.data.recent = 1
    /\ Cardinality(store) = 1

====
